---- MODULE Spec2Model ----
(***************************************************************************)
(* The incremental square-merge engine of src/src/graph.rs: Square,        *)
(* LookupTable and PumpkinPatch.  A bit vector is modelled as the set of   *)
(* the indices of its set bits; an Option<NonZeroU16> as a number, 0 being *)
(* None.                                                                   *)
(***************************************************************************)
EXTENDS Integers, Sequences, FiniteSets

\* Largest grid size a patch is built for.
MaxN == 4

\* Cells with row-major index below MaxCells are the ones the driver plants
\* (the whole grid up to size 3, the cells up to (2, 2) of a grid of size 4).
MaxCells == 11
MaxSharedCells == 4

\* u16 arithmetic wraps modulo 2^16 (release build).
U16Mod == 65536

U16(v) == v % U16Mod

---------------------------------------------------------------------------
(* Square *)

\* Square::new: size is a NonZeroU16.
SquareNew(x, y, sz) == [x |-> x, y |-> y, size |-> sz]

\* Square::contains
SquareContains(sq, x, y) ==
    /\ sq.x <= x
    /\ x < sq.x + sq.size
    /\ sq.y <= y
    /\ y < sq.y + sq.size

SquareBitmapColumnMajor(sq, n) ==
    {i \in 0..(n * n - 1) : SquareContains(sq, i \div n, i % n)}

\* Square::bitmap: bit i of the N*N vector is set iff the square contains
\* (i % N, i / N).
SquareBitmap(sq, n) ==
    {i \in 0..(n * n - 1) : SquareContains(sq, i % n, i \div n)}

\* u16::saturating_sub
SaturatingSub(a, b) == IF a >= b THEN a - b ELSE 0

\* The double loop of next_larger_squares: x outer, y inner, both ascending.
RECURSIVE LargerLoop(_, _, _, _, _, _)
LargerLoop(x, y, min_y, max_x, max_y, new_size) ==
    IF x > max_x THEN <<>>
    ELSE IF y > max_y THEN LargerLoop(x + 1, min_y, min_y, max_x, max_y, new_size)
    ELSE <<SquareNew(x, y, new_size)>>
            \o LargerLoop(x, y + 1, min_y, max_x, max_y, new_size)

NextLargerSquaresStrictFit(sq, n) ==
    IF sq.size = n THEN <<>>
    ELSE LET new_size == sq.size + 1
             min_x == SaturatingSub(sq.x, new_size - 1)
             max_x == IF sq.x + new_size < n THEN sq.x ELSE sq.x - 1
             min_y == SaturatingSub(sq.y, new_size - 1)
             max_y == IF sq.y + new_size < n THEN sq.y ELSE sq.y - 1
         IN  LargerLoop(min_x, min_y, min_y, max_x, max_y, new_size)

NextLargerSquaresNoFit(sq, n) ==
    IF sq.size = n THEN <<>>
    ELSE LET new_size == sq.size + 1
             min_x == SaturatingSub(sq.x, new_size - 1)
             min_y == SaturatingSub(sq.y, new_size - 1)
         IN  LargerLoop(min_x, min_y, min_y, sq.x, sq.y, new_size)

\* Square::next_larger_squares
NextLargerSquares(sq, n) ==
    IF sq.size = n THEN <<>>
    ELSE LET new_size == sq.size + 1
             min_x == SaturatingSub(sq.x, new_size - 1)
             max_x == IF sq.x + new_size <= n THEN sq.x ELSE sq.x - 1
             min_y == SaturatingSub(sq.y, new_size - 1)
             max_y == IF sq.y + new_size <= n THEN sq.y ELSE sq.y - 1
         IN  LargerLoop(min_x, min_y, min_y, max_x, max_y, new_size)

\* Square::idx, the perfect hash
Idx(sq, n) == sq.x + sq.y * n + (sq.size - 1) * n * n

FromIndexColumnMajor(idx, n) ==
    LET sz  == idx \div (n * n)
        rem == idx % (n * n)
    IN  SquareNew(U16(rem \div n), U16(rem % n), U16(U16(sz) + 1))

\* Square::from_index
FromIndex(idx, n) ==
    LET sz  == idx \div (n * n)
        rem == idx % (n * n)
    IN  SquareNew(U16(rem % n), U16(rem \div n), U16(U16(sz) + 1))

---------------------------------------------------------------------------
(* LookupTable *)

\* Two consecutive runs of iterations of the loop of LookupTable::new put
\* together: the entries of the second run start where the first run's end.
JoinRuns(l, r) ==
    [size |-> l.size,
     index |-> l.index \o [i \in 1..Len(r.index) |->
                              r.index[i] + Len(l.larger_squares)],
     larger_squares |-> l.larger_squares \o r.larger_squares,
     bitmaps |-> l.bitmaps \o r.bitmaps]

\* The iterations idx = lo .. hi - 1 of the loop of LookupTable::new, as the
\* entries they append: index[idx] = larger_squares.len() before the extend,
\* larger_squares.extend(sq.next_larger_squares(gz)), bitmaps[idx] = sq.bitmap(gz).
\* The run is split in two halves to keep the evaluation shallow.
RECURSIVE BuildLoop(_, _, _)
BuildLoop(lo, hi, gz) ==
    IF hi <= lo
    THEN [size |-> gz, index |-> <<>>, larger_squares |-> <<>>, bitmaps |-> <<>>]
    ELSE IF hi - lo = 1
    THEN LET sq == FromIndex(lo, gz)
         IN  [size |-> gz, index |-> <<0>>,
              larger_squares |-> NextLargerSquares(sq, gz),
              bitmaps |-> <<SquareBitmap(sq, gz)>>]
    ELSE CHOOSE t \in {JoinRuns(l, r) :
                          l \in {BuildLoop(lo, (lo + hi) \div 2, gz)},
                          r \in {BuildLoop((lo + hi) \div 2, hi, gz)}} : TRUE

\* LookupTable::new.  The vectors are 0-based in the source and 1-based here.
LookupTableNew(n) == BuildLoop(0, n * n * n, n)

\* The tables, one per grid size, built once.
Tables == [n \in 0..MaxN |-> LookupTableNew(n)]

\* LookupTable::get_larger
GetLarger(t, sq) ==
    LET idx   == Idx(sq, t.size)
        start == t.index[idx + 1]
        end   == IF idx + 1 < Len(t.index) THEN t.index[idx + 2]
                 ELSE Len(t.larger_squares)
    IN  SubSeq(t.larger_squares, start + 1, end)

\* LookupTable::get_bitmap
GetBitmap(t, sq) == t.bitmaps[Idx(sq, t.size) + 1]

---------------------------------------------------------------------------
(* PumpkinPatch *)

VARIABLES
    size,            \* PumpkinPatch.size
    bitmap,          \* PumpkinPatch.bitmap: the planted cells
    ids,             \* PumpkinPatch.ids, row-major
    ids_transposed,  \* PumpkinPatch.ids_transposed, column-major
    last,            \* the last call of add: its arguments and its result
    query,           \* the last call of a Square / LookupTable function
    lookup_table,    \* PumpkinPatch.lookup_table: the table behind the Rc
    other,           \* a second PumpkinPatch holding the same Rc<LookupTable>
    merge_3,         \* how many calls of test_merge_3 were made, in its order
    debug_assertions, \* cfg!(debug_assertions): TRUE in a debug build
    pumpkins         \* a Pumpkins<N> of main.rs, the engine before PumpkinPatch

vars == <<size, bitmap, ids, ids_transposed, last, query,
          lookup_table, other, merge_3, debug_assertions, pumpkins>>

Cells(n) == 0..(n * n - 1)

\* PumpkinPatch::index
Index(n, x, y) == U16(y * n + x)

\* PumpkinPatch::get
Get(x, y) == ids[Index(size, x, y)]

\* PumpkinPatch::contains
Contains(x, y) == Index(size, x, y) \in bitmap

BitAndAnyOverlap(a, b) == [bits |-> a \cap b, changed |-> (a \cap b) = {}]

BitAndFlagInverted(a, b) == [bits |-> a \cap b, changed |-> (a \cap b) = a]

\* BitVec::and: intersects a with b; the result says whether a changed.
BitAnd(a, b) == [bits |-> a \cap b, changed |-> (a \cap b) # a]

EdgeClashShortScan(v, inside_idx, outside_idx, len) ==
    \E i \in 0..(len - 2) :
        /\ v[outside_idx + i] # 0
        /\ v[inside_idx + i] = v[outside_idx + i]

\* inside.iter().zip(outside.iter()).any(|(a, b)| b.is_some() && a == b)
\* over two slices of length len of the array v.
EdgeClash(v, inside_idx, outside_idx, len) ==
    \E i \in 0..(len - 1) :
        /\ v[outside_idx + i] # 0
        /\ v[inside_idx + i] = v[outside_idx + i]

CheckBoundaryRowsOnly(v, vt, n, sq) ==
    LET north == /\ sq.y < U16(n - sq.size)
                 /\ EdgeClash(v, U16((sq.y + sq.size - 1) * n + sq.x),
                                 U16((sq.y + sq.size) * n + sq.x), sq.size)
        south == /\ sq.y > 0
                 /\ EdgeClash(v, U16(sq.y * n + sq.x),
                                 U16((sq.y - 1) * n + sq.x), sq.size)
    IN  ~north /\ ~south

CheckBoundaryColumnsOnIds(v, vt, n, sq) ==
    LET north == /\ sq.y < U16(n - sq.size)
                 /\ EdgeClash(v, U16((sq.y + sq.size - 1) * n + sq.x),
                                 U16((sq.y + sq.size) * n + sq.x), sq.size)
        south == /\ sq.y > 0
                 /\ EdgeClash(v, U16(sq.y * n + sq.x),
                                 U16((sq.y - 1) * n + sq.x), sq.size)
        east  == /\ sq.x < U16(n - sq.size)
                 /\ EdgeClash(v, U16((sq.x + sq.size - 1) * n + sq.y),
                                 U16((sq.x + sq.size) * n + sq.y), sq.size)
        west  == /\ sq.x > 0
                 /\ EdgeClash(v, U16(sq.x * n + sq.y),
                                 U16((sq.x - 1) * n + sq.y), sq.size)
    IN  ~north /\ ~south /\ ~east /\ ~west

\* PumpkinPatch::check_boundary, on the identity arrays v (ids) and vt
\* (ids_transposed) of a patch of size n.
CheckBoundary(v, vt, n, sq) ==
    LET north == /\ sq.y < U16(n - sq.size)
                 /\ EdgeClash(v, U16((sq.y + sq.size - 1) * n + sq.x),
                                 U16((sq.y + sq.size) * n + sq.x), sq.size)
        south == /\ sq.y > 0
                 /\ EdgeClash(v, U16(sq.y * n + sq.x),
                                 U16((sq.y - 1) * n + sq.x), sq.size)
        east  == /\ sq.x < U16(n - sq.size)
                 /\ EdgeClash(vt, U16((sq.x + sq.size - 1) * n + sq.y),
                                  U16((sq.x + sq.size) * n + sq.y), sq.size)
        west  == /\ sq.x > 0
                 /\ EdgeClash(vt, U16(sq.x * n + sq.y),
                                  U16((sq.x - 1) * n + sq.y), sq.size)
    IN  ~north /\ ~south /\ ~east /\ ~west

UnvisitedUnfiltered(t, square, visited) == GetLarger(t, square)

\* The neighbours of a popped square that are not yet visited, in table order.
Unvisited(t, square, visited) ==
    SelectSeq(GetLarger(t, square), LAMBDA sq : Idx(sq, t.size) \notin visited)

AcceptsUnchecked(v, vt, n, square, largest) ==
    square.size > largest.size

\* square.size > largest_square.size && self.check_boundary(&square)
Accepts(v, vt, n, square, largest) ==
    /\ square.size > largest.size
    /\ CheckBoundary(v, vt, n, square)

KeepInPlace(t, square, bits) ==
    [t EXCEPT !.bitmaps[Idx(square, t.size) + 1] = bits]

\* get_bitmap hands out a clone of the table's bitmap: the and() of add works
\* on the clone, which is dropped, and the table keeps what it had.
DropClone(t, square, bits) == t

RECURSIVE SearchExpandingAll(_, _, _, _, _, _, _, _, _)
SearchExpandingAll(t, bm, v, vt, stack, visited, largest, popped, pushes) ==
    IF stack = <<>>
    THEN [largest |-> largest, pops |-> Len(popped), pushes |-> pushes,
          visited |-> Cardinality(visited), popped |-> popped, table |-> t]
    ELSE LET square == stack[Len(stack)]
             rest   == SubSeq(stack, 1, Len(stack) - 1)
             anded  == BitAnd(GetBitmap(t, square), bm)
             neighbors == Unvisited(t, square, visited)
         IN  SearchExpandingAll(
                 DropClone(t, square, anded.bits), bm, v, vt,
                 rest \o neighbors,
                 visited \cup {Idx(neighbors[i], t.size) : i \in 1..Len(neighbors)},
                 IF ~anded.changed /\ Accepts(v, vt, t.size, square, largest)
                 THEN square ELSE largest,
                 Append(popped, square), pushes + Len(neighbors))

\* The while loop of add: pops the last square of the stack; a fully planted
\* square pushes its unvisited neighbours and may become the largest square.
\* popped lists the squares the iterations popped, in order, and pushes
\* counts the squares put on the stack.
RECURSIVE Search(_, _, _, _, _, _, _, _, _)
Search(t, bm, v, vt, stack, visited, largest, popped, pushes) ==
    IF stack = <<>>
    THEN [largest |-> largest, pops |-> Len(popped), pushes |-> pushes,
          visited |-> Cardinality(visited), popped |-> popped, table |-> t]
    ELSE LET square == stack[Len(stack)]
             rest   == SubSeq(stack, 1, Len(stack) - 1)
             anded  == BitAnd(GetBitmap(t, square), bm)
         IN  IF ~anded.changed
             THEN LET neighbors == Unvisited(t, square, visited)
                  IN  Search(DropClone(t, square, anded.bits), bm, v, vt,
                             rest \o neighbors,
                             visited \cup {Idx(neighbors[i], t.size) :
                                              i \in 1..Len(neighbors)},
                             IF Accepts(v, vt, t.size, square, largest)
                             THEN square ELSE largest,
                             Append(popped, square), pushes + Len(neighbors))
             ELSE Search(DropClone(t, square, anded.bits), bm, v, vt,
                         rest, visited, largest, Append(popped, square), pushes)

\* The search of add(x, y) on a patch whose bitmap bm already has (x, y):
\* start is marked visited and is the first square on the stack.
SearchFrom(t, bm, v, vt, x, y) ==
    LET start == SquareNew(x, y, 1)
    IN  Search(t, bm, v, vt, <<start>>, {Idx(start, t.size)}, start, <<>>, 1)

\* The square add(x, y) returns on a patch whose bitmap bm already has (x, y).
LargestSquare(t, bm, v, vt, x, y) == SearchFrom(t, bm, v, vt, x, y).largest

\* The identity add writes: NonZeroU16::new(largest.y * size + largest.x + 1)
IdOf(sq, n) == U16(U16(sq.y * n + sq.x) + 1)

WriteIdsInclusiveEnd(v, n, sq, id) ==
    [i \in Cells(n) |->
        IF \E y \in sq.y..(sq.y + sq.size), x \in sq.x..(sq.x + sq.size) :
               U16(y * n + x) = i
        THEN id ELSE v[i]]

\* The fill loop of add on ids: ids[y * size + x] = id over the footprint.
WriteIds(v, n, sq, id) ==
    [i \in Cells(n) |->
        IF \E y \in sq.y..(sq.y + sq.size - 1), x \in sq.x..(sq.x + sq.size - 1) :
               U16(y * n + x) = i
        THEN id ELSE v[i]]

WriteIdsUntransposed(vt, n, sq, id) == WriteIds(vt, n, sq, id)

\* The fill loop of add on ids_transposed: ids_transposed[x * size + y] = id.
WriteIdsTransposed(vt, n, sq, id) ==
    [i \in Cells(n) |->
        IF \E y \in sq.y..(sq.y + sq.size - 1), x \in sq.x..(sq.x + sq.size - 1) :
               U16(x * n + y) = i
        THEN id ELSE vt[i]]

\* What add(x, y) leaves behind on a patch (bm, v, vt) of an n-grid that
\* reads the table t: the cell is marked, the search runs, and the identity
\* of the returned square is written over its footprint in both orders.
AddOutcome(t, bm, v, vt, n, x, y) ==
    CHOOSE o \in
        {[bitmap |-> bm \cup {Index(n, x, y)},
          ids |-> WriteIds(v, n, r.largest, IdOf(r.largest, n)),
          ids_transposed |-> WriteIdsTransposed(vt, n, r.largest, IdOf(r.largest, n)),
          last |-> [op |-> "add", x |-> x, y |-> y, ret |-> r.largest,
                    pops |-> r.pops, pushes |-> r.pushes, visited |-> r.visited,
                    popped |-> r.popped,
                    planted |-> Index(n, x, y) \in bm],
          table |-> r.table] :
            r \in {SearchFrom(t, bm \cup {Index(n, x, y)}, v, vt, x, y)}} : TRUE

\* No function of Square or LookupTable was called on its own yet.
NoQuery ==
    [op |-> "none", sq |-> SquareNew(0, 0, 1), larger |-> <<>>,
     idx |-> 0, back |-> SquareNew(0, 0, 1),
     n |-> 0, x |-> 0, y |-> 0, outcome |-> "none", id |-> 0, index |-> 0,
     entries |-> 0]

\* A patch nothing was planted on yet.
NewLast ==
    [op |-> "new", x |-> 0, y |-> 0, ret |-> SquareNew(0, 0, 1),
     pops |-> 0, pushes |-> 0, visited |-> 0, popped |-> <<>>,
     planted |-> FALSE]

\* PumpkinPatch::new(size, lookup_table) as a value: the second patch.
PatchNew(n) ==
    [bitmap |-> {}, ids |-> [i \in Cells(n) |-> 0],
     ids_transposed |-> [i \in Cells(n) |-> 0], last |-> NewLast]

\* No second patch was made.
NoPatch == [bitmap |-> {}, ids |-> <<>>, ids_transposed |-> <<>>, last |-> NewLast]

---------------------------------------------------------------------------
(* Pumpkins<N>, the engine of main.rs *)

U8Mod == 256

\* A value cast with `as u8`.
U8(v) == v % U8Mod

\* Square::<N>::new of main.rs: the bitmask has the bits (y + i) * N + x + j
\* of the rows i and the columns j of the square.
SquareBitmask(sq, n) ==
    {(sq.y + i) * n + sq.x + j : i \in 0..(sq.size - 1), j \in 0..(sq.size - 1)}

\* all_squares::<N>(): x outermost, then y, then the side l in 2..=N, keeping
\* the squares that fit.
AllSquares(n) ==
    SelectSeq([k \in 1..(n * n * (n - 1)) |->
                  SquareNew((k - 1) \div (n * (n - 1)),
                            ((k - 1) \div (n - 1)) % n,
                            2 + ((k - 1) % (n - 1)))],
              LAMBDA sq : sq.x + sq.size <= n /\ sq.y + sq.size <= n)

\* precompute_squares::<N>(): entry y * N + x lists the squares that contain
\* (x, y), in the order of all_squares.
PrecomputeSquares(n) ==
    [c \in Cells(n) |->
        SelectSeq(AllSquares(n), LAMBDA sq : c \in SquareBitmask(sq, n))]

\* The tables of the old engine, one per grid size, built once.
SquaresLookupTables == [n \in 1..MaxN |-> PrecomputeSquares(n)]

\* Pumpkins::check_boundary: as PumpkinPatch::check_boundary, in usize.
PumpkinsCheckBoundary(v, vt, n, sq) ==
    LET north == /\ sq.y < n - sq.size
                 /\ EdgeClash(v, (sq.y + sq.size - 1) * n + sq.x,
                                 (sq.y + sq.size) * n + sq.x, sq.size)
        south == /\ sq.y > 0
                 /\ EdgeClash(v, sq.y * n + sq.x, (sq.y - 1) * n + sq.x, sq.size)
        east  == /\ sq.x < n - sq.size
                 /\ EdgeClash(vt, (sq.x + sq.size - 1) * n + sq.y,
                                  (sq.x + sq.size) * n + sq.y, sq.size)
        west  == /\ sq.x > 0
                 /\ EdgeClash(vt, sq.x * n + sq.y, (sq.x - 1) * n + sq.y, sq.size)
    IN  ~north /\ ~south /\ ~east /\ ~west

\* Iterator::max_by_key(|sq| sq.size) on a sequence that is not empty: of
\* several squares of the largest size the last one is returned.
MaxByKeySize(seq) ==
    seq[CHOOSE i \in 1..Len(seq) :
            /\ \A j \in 1..Len(seq) : seq[j].size <= seq[i].size
            /\ \A j \in (i + 1)..Len(seq) : seq[j].size < seq[i].size]

\* The square Pumpkins::add(x, y) merges into, if there is one: the squares of
\* the table entry that are fully planted in bm, the bitmask with (x, y) set,
\* and pass check_boundary; the largest of them.
PumpkinsMerge(tbl, bm, v, vt, n, x, y) ==
    LET merges == SelectSeq(tbl[y * n + x],
                            LAMBDA sq : /\ SquareBitmask(sq, n) \subseteq bm
                                        /\ PumpkinsCheckBoundary(v, vt, n, sq))
    IN  IF merges = <<>> THEN SquareNew(x, y, 1) ELSE MaxByKeySize(merges)

\* Pumpkins::add(x, y) on the engine p of an n-grid: the identity of the
\* merged square, or of the cell alone, is written in both arrays, as a u8.
PumpkinsAdd(p, n, x, y) ==
    CHOOSE q \in
        {[bitmask |-> p.bitmask \cup {y * n + x},
          ids |-> [i \in Cells(n) |->
                      IF \E cy \in m.y..(m.y + m.size - 1),
                            cx \in m.x..(m.x + m.size - 1) : cy * n + cx = i
                      THEN U8(m.y * n + m.x + 1) ELSE p.ids[i]],
          ids_transposed |->
                  [i \in Cells(n) |->
                      IF \E cy \in m.y..(m.y + m.size - 1),
                            cx \in m.x..(m.x + m.size - 1) : cx * n + cy = i
                      THEN U8(m.y * n + m.x + 1) ELSE p.ids_transposed[i]],
          ret |-> m] :
            m \in {PumpkinsMerge(SquaresLookupTables[n], p.bitmask \cup {y * n + x},
                                 p.ids, p.ids_transposed, n, x, y)}} : TRUE

\* Pumpkins::<N>::new()
PumpkinsNew(n) ==
    [bitmask |-> {}, ids |-> [i \in Cells(n) |-> 0],
     ids_transposed |-> [i \in Cells(n) |-> 0], ret |-> SquareNew(0, 0, 1)]

\* No Pumpkins<N> was made.
NoPumpkins ==
    [bitmask |-> {}, ids |-> <<>>, ids_transposed |-> <<>>,
     ret |-> SquareNew(0, 0, 1)]

---------------------------------------------------------------------------
(* The patch and its calls *)

\* The cells test_merge_3 plants, in its order.
Merge3Order ==
    << <<2, 2>>, <<2, 1>>, <<1, 2>>, <<1, 1>>, <<1, 0>>,
       <<0, 1>>, <<0, 0>>, <<2, 0>>, <<0, 2>> >>

\* How far the calls so far follow test_merge_3 (-1 once they left it).
Merge3Step(n, step, x, y) ==
    IF /\ n = Len(Merge3Order) \div 3
       /\ step >= 0
       /\ step < Len(Merge3Order)
       /\ Merge3Order[step + 1] = <<x, y>>
    THEN step + 1 ELSE -1

\* PumpkinPatch::new_make_table(size): an empty patch and its table.
InitPatch ==
    /\ size \in 1..MaxN
    /\ lookup_table = Tables[size]
    /\ bitmap = {}
    /\ ids = [i \in Cells(size) |-> 0]
    /\ ids_transposed = [i \in Cells(size) |-> 0]
    /\ last = NewLast
    /\ query = NoQuery
    /\ merge_3 = 0

\* One patch.  add is only called on unplanted cells here, where none of its
\* assertions fails and no sum overflows: the build makes no difference.
Init ==
    /\ InitPatch
    /\ other = NoPatch
    /\ debug_assertions = FALSE
    /\ pumpkins = NoPumpkins

\* The body of add past its first line, on the fields of the patch.
PlantPatch(x, y) ==
    /\ \E o \in {AddOutcome(lookup_table, bitmap, ids, ids_transposed, size, x, y)} :
          /\ bitmap' = o.bitmap
          /\ ids' = o.ids
          /\ ids_transposed' = o.ids_transposed
          /\ last' = o.last
          /\ lookup_table' = o.table
    /\ merge_3' = Merge3Step(size, merge_3, x, y)

\* The body of add past its first line.
Plant(x, y) ==
    /\ PlantPatch(x, y)
    /\ UNCHANGED <<size, query, other, debug_assertions, pumpkins>>

\* PumpkinPatch::add(x, y) on an unplanted cell.
Add(x, y) ==
    /\ last.op # "panic"
    /\ ~Contains(x, y)
    /\ y * size + x < MaxCells
    /\ Plant(x, y)

Next == \E x \in 0..(size - 1), y \in 0..(size - 1) : Add(x, y)

Spec == Init /\ [][Next]_vars

---------------------------------------------------------------------------
(* add on any cell, in either build *)

\* A patch made by a debug build or by a release build.
InitBuilds ==
    /\ InitPatch
    /\ other = NoPatch
    /\ debug_assertions \in BOOLEAN
    /\ pumpkins = NoPumpkins

\* debug_assert!(!self.contains(x, y)) failing: the thread panics and the
\* patch is left as it was.
Panic(x, y) ==
    /\ last' = [op |-> "panic", x |-> x, y |-> y, ret |-> SquareNew(x, y, 1),
                pops |-> 0, pushes |-> 0, visited |-> 0, popped |-> <<>>,
                planted |-> TRUE]
    /\ merge_3' = -1
    /\ UNCHANGED <<size, lookup_table, bitmap, ids, ids_transposed, query,
                   other, debug_assertions, pumpkins>>

\* PumpkinPatch::add(x, y) on a planted cell: the debug_assert! of its first
\* line is compiled only into a debug build; a release build goes on with the
\* body.
Replant(x, y) ==
    /\ last.op # "panic"
    /\ Contains(x, y)
    /\ IF debug_assertions THEN Panic(x, y) ELSE Plant(x, y)

NextAnyCell ==
    \E x \in 0..(size - 1), y \in 0..(size - 1) : Add(x, y) \/ Replant(x, y)

SpecAnyCell == InitBuilds /\ [][NextAnyCell]_vars

---------------------------------------------------------------------------
(* Two patches holding the same Rc<LookupTable> *)

\* let table = Rc::new(LookupTable::new(size)); two calls of
\* PumpkinPatch::new(size, table.clone()).
InitShared ==
    /\ InitPatch
    /\ other = PatchNew(size)
    /\ debug_assertions = FALSE
    /\ pumpkins = NoPumpkins

\* add(x, y) on the first patch.
AddFirst(x, y) ==
    /\ y * size + x < MaxSharedCells
    /\ Add(x, y)

\* add(x, y) on the second patch, on an unplanted cell: the same code on the
\* fields of the other patch, reading the same table.
AddOther(x, y) ==
    /\ Index(size, x, y) \notin other.bitmap
    /\ y * size + x < MaxSharedCells
    /\ \E o \in {AddOutcome(lookup_table, other.bitmap, other.ids,
                            other.ids_transposed, size, x, y)} :
          /\ other' = [bitmap |-> o.bitmap, ids |-> o.ids,
                       ids_transposed |-> o.ids_transposed, last |-> o.last]
          /\ lookup_table' = o.table
    /\ UNCHANGED <<size, bitmap, ids, ids_transposed, last, query, merge_3,
                   debug_assertions, pumpkins>>

\* The calls on the two patches, interleaved in any order.
NextShared ==
    \E x \in 0..(size - 1), y \in 0..(size - 1) : AddFirst(x, y) \/ AddOther(x, y)

SpecShared == InitShared /\ [][NextShared]_vars

---------------------------------------------------------------------------
(* The two engines fed the same cells *)

\* PumpkinPatch::new_make_table(N) and Pumpkins::<N>::new().
InitEngines ==
    /\ InitPatch
    /\ other = NoPatch
    /\ debug_assertions = FALSE
    /\ pumpkins = PumpkinsNew(size)

\* add(x, y) on both engines, on a cell planted in neither.
AddBoth(x, y) ==
    /\ ~Contains(x, y)
    /\ y * size + x \notin pumpkins.bitmask
    /\ y * size + x < MaxCells
    /\ PlantPatch(x, y)
    /\ pumpkins' = PumpkinsAdd(pumpkins, size, x, y)
    /\ UNCHANGED <<size, query, other, debug_assertions>>

NextEngines == \E x \in 0..(size - 1), y \in 0..(size - 1) : AddBoth(x, y)

SpecEngines == InitEngines /\ [][NextEngines]_vars

---------------------------------------------------------------------------
(* The functions of Square and LookupTable, applied to every valid square. *)

\* The valid squares of each grid: size >= 1, x + size <= n, y + size <= n.
ValidSquaresOf ==
    [n \in 1..MaxN |->
        {sq \in [x : 0..(n - 1), y : 0..(n - 1), size : 1..n] :
            sq.x + sq.size <= n /\ sq.y + sq.size <= n}]

\* The valid squares of an n-grid.
ValidSquares(n) == ValidSquaresOf[n]

\* sq.next_larger_squares(size)
NextLargerCall(sq) ==
    /\ query' = [NoQuery EXCEPT !.op = "next_larger", !.sq = sq,
                                !.larger = NextLargerSquares(sq, size)]
    /\ UNCHANGED <<size, lookup_table, bitmap, ids, ids_transposed, last,
                   other, merge_3, debug_assertions, pumpkins>>

\* lookup_table.get_larger(sq)
GetLargerCall(sq) ==
    /\ query' = [NoQuery EXCEPT !.op = "get_larger", !.sq = sq,
                                !.larger = GetLarger(lookup_table, sq)]
    /\ UNCHANGED <<size, lookup_table, bitmap, ids, ids_transposed, last,
                   other, merge_3, debug_assertions, pumpkins>>

\* Square::from_index(sq.idx(size), size), as the test idx calls them.
IdxCall(sq) ==
    /\ query' = [NoQuery EXCEPT !.op = "idx", !.sq = sq,
                                !.idx = Idx(sq, size),
                                !.back = FromIndex(Idx(sq, size), size)]
    /\ UNCHANGED <<size, lookup_table, bitmap, ids, ids_transposed, last,
                   other, merge_3, debug_assertions, pumpkins>>

\* Square::from_index(idx, size), as the loop of LookupTable::new calls it on
\* every idx of 0..size^3.
FromIndexCall(idx) ==
    /\ query' = [NoQuery EXCEPT !.op = "from_index", !.idx = idx,
                                !.back = FromIndex(idx, size)]
    /\ UNCHANGED <<size, lookup_table, bitmap, ids, ids_transposed, last,
                   other, merge_3, debug_assertions, pumpkins>>

\* The grid sizes LookupTable::new is called with: a u16, 0 included.
TableSizes == 0..MaxN

\* LookupTable::new(n).  No line of it checks n or can fail: for n = 0 the
\* vectors have length 0 and the loop body never runs.
NewCall(n) ==
    /\ query' = [NoQuery EXCEPT !.op = "new", !.n = n, !.outcome = "table",
                                !.entries = Len(Tables[n].index)]
    /\ UNCHANGED <<size, lookup_table, bitmap, ids, ids_transposed, last,
                   other, merge_3, debug_assertions, pumpkins>>

\* Grid sizes around the capacity of the u16 of size, x, y and the identity.
CapacitySizes == {1, 2, 3, 255, 256, 257, 1024}

\* The first and the last two coordinates of an n-grid.
EdgeCoordinates(n) == {c \in {0, 1, n - 2, n - 1} : 0 <= c /\ c < n}

\* A u16 operation whose exact result v does not fit: a debug build panics
\* there (overflow checks are on with debug assertions), a release build
\* goes on with v % 2^16.
Overflows(v) == v >= U16Mod

\* The identity and the cell index PumpkinPatch computes for the anchor (x, y)
\* on an n-grid: largest.y * self.size + largest.x + 1 and y * self.size + x,
\* both in u16.
IdCall(n, x, y) ==
    /\ query' =
           IF /\ debug_assertions
              /\ Overflows(y * n) \/ Overflows(y * n + x) \/ Overflows(y * n + x + 1)
           THEN [NoQuery EXCEPT !.op = "id", !.n = n, !.x = x, !.y = y,
                                !.outcome = "panic"]
           ELSE [NoQuery EXCEPT !.op = "id", !.n = n, !.x = x, !.y = y,
                                !.outcome = "value",
                                !.id = IdOf(SquareNew(x, y, 1), n),
                                !.index = Index(n, x, y)]
    /\ UNCHANGED <<size, lookup_table, bitmap, ids, ids_transposed, last,
                   other, merge_3, debug_assertions, pumpkins>>

NextSquare ==
    \/ \E sq \in ValidSquares(size) :
          NextLargerCall(sq) \/ GetLargerCall(sq) \/ IdxCall(sq)
    \/ \E idx \in 0..(size * size * size - 1) : FromIndexCall(idx)
    \/ \E n \in TableSizes : NewCall(n)
    \/ \E n \in CapacitySizes :
          \E x \in EdgeCoordinates(n), y \in EdgeCoordinates(n) : IdCall(n, x, y)

SpecSquare == InitBuilds /\ [][NextSquare]_vars

---------------------------------------------------------------------------
(* Properties of add *)

\* A square is fully planted in bm when each of its cells is planted.
FullyPlanted(bm, sq, n) ==
    \A y \in sq.y..(sq.y + sq.size - 1), x \in sq.x..(sq.x + sq.size - 1) :
        y * n + x \in bm

\* The squares containing (x, y) that are fully planted in bm, the bitmap with
\* (x, y) marked, and pass check_boundary on the identities v, vt.
AcceptedSquares(bm, v, vt, n, x, y) ==
    {sq \in ValidSquares(n) :
        /\ SquareContains(sq, x, y)
        /\ FullyPlanted(bm, sq, n)
        /\ CheckBoundary(v, vt, n, sq)}

\* The squares of S no square of S is larger than.
MaximalIn(S) == {sq \in S : \A o \in S : o.size <= sq.size}

\* The cells that carry identity i in the array v.
Carrying(v, i) == {c \in DOMAIN v : v[c] = i}

\* The identities present in the array v.
Identities(v) == {v[c] : c \in DOMAIN v} \ {0}

AddHappened == last.op = "add"

\* C1: the insert that plants the last cell of the grid returns the square
\* (0, 0, N).
C1_FullGridMerge ==
    (AddHappened /\ bitmap = Cells(size)) => last.ret = SquareNew(0, 0, size)

C1_Witness ==
    /\ AddHappened
    /\ size = 3
    /\ bitmap = Cells(size)
    /\ last.x = 1
    /\ last.y = 1

\* C2: no square that contains the inserted cell, is fully planted after the
\* cell is marked and passes check_boundary on the identities of before the
\* call is larger than the returned square.
C2_Maximality ==
    [][bitmap' # bitmap =>
        \A sq \in AcceptedSquares(bitmap', ids, ids_transposed, size, last'.x, last'.y) :
            sq.size <= last'.ret.size]_vars

\* A 2x2 merge while a fully planted 3x3 around the cell was turned down.
C2_Witness ==
    /\ AddHappened
    /\ last.ret.size = 2
    /\ \E sq \in ValidSquares(size) :
          /\ sq.size = 3
          /\ SquareContains(sq, last.x, last.y)
          /\ FullyPlanted(bitmap, sq, size)

\* C3: the square add returns contains the inserted cell.
C3_ReturnedContainsCell ==
    AddHappened => SquareContains(last.ret, last.x, last.y)

\* C4: every cell of the returned square is planted once the call has marked
\* the inserted cell.
C4_ReturnedFullyPlanted ==
    AddHappened =>
        \A x \in 0..(size - 1), y \in 0..(size - 1) :
            SquareContains(last.ret, x, y) => Contains(x, y)

C4_Witness ==
    /\ AddHappened
    /\ size = 4
    /\ last.ret.size = 3
    /\ bitmap # Cells(size)

\* C5: the cells that carry an identity i are exactly the cells of one square
\* of the grid anchored at ((i - 1) mod N, (i - 1) div N).
C5_IdentityIsOneSquare ==
    \A i \in Identities(ids) :
        \E s \in 1..size :
            LET sq == SquareNew((i - 1) % size, (i - 1) \div size, s)
            IN  /\ sq \in ValidSquares(size)
                /\ Carrying(ids, i) = SquareBitmap(sq, size)

\* Two merged 2x2 regions side by side and a unit region.
C5_Witness ==
    /\ AddHappened
    /\ \E i, j, k \in Identities(ids) :
          /\ i # j
          /\ Cardinality(Carrying(ids, i)) = 4
          /\ Cardinality(Carrying(ids, j)) = 4
          /\ Cardinality(Carrying(ids, k)) = 1

\* C6: get(x, y) is none iff contains(x, y) is false, for every cell.
C6_GetNoneIffUnplanted ==
    \A x \in 0..(size - 1), y \in 0..(size - 1) :
        (Get(x, y) = 0) <=> ~Contains(x, y)

\* C7: ids[y*N + x] = ids_transposed[x*N + y] for every cell (x, y).
C7_TransposedAgrees ==
    \A x \in 0..(size - 1), y \in 0..(size - 1) :
        ids[y * size + x] = ids_transposed[x * size + y]

\* A merge into a square off the diagonal, so that the two arrays differ.
C7_Witness ==
    /\ AddHappened
    /\ last.ret.size = 2
    /\ last.ret.x # last.ret.y
    /\ ids # ids_transposed

\* C8: every identity present before the call has its cells all inside or
\* all outside the returned square, and a cell whose identity is overwritten
\* has its whole previous region inside its new one.
C8_NoPartialOverlap ==
    [][bitmap' # bitmap =>
        /\ \A i \in Identities(ids) :
              \/ Carrying(ids, i) \subseteq SquareBitmap(last'.ret, size)
              \/ Carrying(ids, i) \cap SquareBitmap(last'.ret, size) = {}
        /\ \A c \in Cells(size) :
              (ids[c] # 0 /\ ids'[c] # ids[c]) =>
                  Carrying(ids, ids[c]) \subseteq Carrying(ids', ids'[c])]_vars

\* The call returned the unit square although a 2x2 around the cell is fully
\* planted: that 2x2 cuts through a region and was turned down.  Only the
\* inserted cell changed identity, so the region is as it was before the call.
C8_Witness ==
    /\ AddHappened
    /\ last.ret.size = 1
    /\ \E sq \in ValidSquares(size) :
          /\ sq.size = 2
          /\ SquareContains(sq, last.x, last.y)
          /\ FullyPlanted(bitmap, sq, size)
          /\ \E i \in Identities(ids) :
                /\ Carrying(ids, i) \cap SquareBitmap(sq, size) # {}
                /\ ~(Carrying(ids, i) \subseteq SquareBitmap(sq, size))

\* C9 as stated: for every unplanted cell at most one square of the maximal
\* accepted size is fully planted and passes check_boundary.
C9_AtMostOneMaximal ==
    \A x \in 0..(size - 1), y \in 0..(size - 1) :
        ~Contains(x, y) =>
            Cardinality(MaximalIn(
                AcceptedSquares(bitmap \cup {Index(size, x, y)},
                                ids, ids_transposed, size, x, y))) <= 1

\* C9 as amended: the returned square is the unit square of the cell or a
\* fully planted square that passes check_boundary, and no accepted square
\* around the cell is larger; it need not be the only one of its size.
C9_ReturnedIsOfMaximalSize ==
    [][bitmap' # bitmap =>
        /\ \/ last'.ret = SquareNew(last'.x, last'.y, 1)
           \/ /\ FullyPlanted(bitmap', last'.ret, size)
              /\ CheckBoundary(ids, ids_transposed, size, last'.ret)
        /\ \A sq \in AcceptedSquares(bitmap', ids, ids_transposed, size,
                                     last'.x, last'.y) :
              sq.size <= last'.ret.size]_vars

\* A 2x2 merge where a second 2x2 around the cell, made of unit regions that
\* are still unit regions, was fully planted as well.
C9_Witness ==
    /\ AddHappened
    /\ last.ret.size = 2
    /\ \E sq \in ValidSquares(size) :
          /\ sq.size = 2
          /\ sq # last.ret
          /\ SquareContains(sq, last.x, last.y)
          /\ FullyPlanted(bitmap, sq, size)
          /\ \A c \in SquareBitmap(sq, size) \ SquareBitmap(last.ret, size) :
                ids[c] = c + 1

---------------------------------------------------------------------------
(* Properties of next_larger_squares *)

\* The squares of side sq.size + 1 that fit in the n-grid and contain every
\* cell of sq.
Supersets(sq, n) ==
    {l \in ValidSquares(n) :
        /\ l.size = sq.size + 1
        /\ SquareBitmap(sq, n) \subseteq SquareBitmap(l, n)}

\* C10: next_larger returns exactly the squares of side size + 1 that fit in
\* the grid and contain every cell of the square, each once; none when the
\* square spans the grid.
C10_NextLargerExact ==
    query.op \in {"next_larger", "get_larger"} =>
        /\ {query.larger[i] : i \in 1..Len(query.larger)} = Supersets(query.sq, size)
        /\ Len(query.larger) = Cardinality(Supersets(query.sq, size))
        /\ (query.sq.size = size => query.larger = <<>>)

---------------------------------------------------------------------------
(* The effect of add, the tests, and the preconditions *)

\* C11: an insert of (x, y) that returns L changes the occupancy only at
\* (x, y), which becomes planted; every cell of L's footprint gets the identity
\* L.y * N + L.x + 1 in ids and in ids_transposed; the identity of every cell
\* outside L, the grid size and the lookup table stay as they were.
C11_InsertFrame ==
    [][bitmap' # bitmap =>
        LET L  == last'.ret
            id == L.y * size + L.x + 1
        IN  /\ last'.y * size + last'.x \notin bitmap
            /\ bitmap' = bitmap \cup {last'.y * size + last'.x}
            /\ \A x \in 0..(size - 1), y \in 0..(size - 1) :
                  IF SquareContains(L, x, y)
                  THEN /\ ids'[y * size + x] = id
                       /\ ids_transposed'[x * size + y] = id
                  ELSE /\ ids'[y * size + x] = ids[y * size + x]
                       /\ ids_transposed'[x * size + y] = ids_transposed[x * size + y]
            /\ size' = size
            /\ lookup_table' = lookup_table]_vars

\* A merge into a square of side 2 or more next to planted cells that keep
\* their identity.
C11_Witness ==
    /\ AddHappened
    /\ last.ret.size >= 2
    /\ \E x \in 0..(size - 1), y \in 0..(size - 1) :
          /\ ~SquareContains(last.ret, x, y)
          /\ Get(x, y) # 0

\* The squares test_merge_3 expects, call by call.
Merge3Sqs ==
    << <<2, 2, 1>>, <<2, 1, 1>>, <<1, 2, 1>>, <<1, 1, 2>>, <<1, 0, 1>>,
       <<0, 1, 1>>, <<0, 0, 1>>, <<2, 0, 1>>, <<0, 0, 3>> >>

\* C12: on an empty 3x3 grid the inserts (2,2), (2,1), (1,2), (1,1), (1,0),
\* (0,1), (0,0), (2,0), (0,2), in this order, return (2,2,1), (2,1,1),
\* (1,2,1), (1,1,2), (1,0,1), (0,1,1), (0,0,1), (2,0,1), (0,0,3).
C12_Merge3 ==
    merge_3 >= 1 =>
        /\ size = 3
        /\ <<last.x, last.y>> = Merge3Order[merge_3]
        /\ <<last.ret.x, last.ret.y, last.ret.size>> = Merge3Sqs[merge_3]

\* The ninth insert of the sequence was made.
C12_Witness ==
    /\ merge_3 = Len(Merge3Order)
    /\ bitmap = Cells(size)
    /\ last.ret.size = 3

\* The squares of side 2 around (x, y) whose three other cells are planted in
\* bm and carry, each, a unit pumpkin in v: the identity of the cell itself,
\* on no other cell.
UnitBlocks(bm, v, n, x, y) ==
    {sq \in {SquareNew(ax, ay, 2) : ax \in {x - 1, x}, ay \in {y - 1, y}} :
        /\ sq \in ValidSquares(n)
        /\ \A cy \in sq.y..(sq.y + 1), cx \in sq.x..(sq.x + 1) :
              \/ <<cx, cy>> = <<x, y>>
              \/ /\ cy * n + cx \in bm
                 /\ v[cy * n + cx] = cy * n + cx + 1
                 /\ \A d \in DOMAIN v : v[d] = cy * n + cx + 1 => d = cy * n + cx}

\* C13 as stated: an insert after which no square of side 2 or more around
\* (x, y) is fully planted returns (x, y, 1), and an insert that completes a
\* 2x2 block of four unit pumpkins returns that 2x2 square.
C13_UnitOrCompletedBlock ==
    [][bitmap' # bitmap =>
        /\ (\A sq \in ValidSquares(size) :
               (sq.size >= 2 /\ SquareContains(sq, last'.x, last'.y))
                   => ~FullyPlanted(bitmap', sq, size))
           => last'.ret = SquareNew(last'.x, last'.y, 1)
        /\ \A sq \in UnitBlocks(bitmap, ids, size, last'.x, last'.y) :
              last'.ret = sq]_vars

\* C13, amended: an insert after which no square of side 2 or more around
\* (x, y) is fully planted returns (x, y, 1), and an insert that completes a
\* 2x2 block of four unit pumpkins returns a square of side 2 or more: that
\* block, or another accepted square at least as large.
C13_UnitOrAtLeastBlock ==
    [][bitmap' # bitmap =>
        /\ (\A sq \in ValidSquares(size) :
               (sq.size >= 2 /\ SquareContains(sq, last'.x, last'.y))
                   => ~FullyPlanted(bitmap', sq, size))
           => last'.ret = SquareNew(last'.x, last'.y, 1)
        /\ \A sq \in UnitBlocks(bitmap, ids, size, last'.x, last'.y) :
              /\ last'.ret.size >= 2
              /\ \/ last'.ret = sq
                 \/ /\ FullyPlanted(bitmap', last'.ret, size)
                    /\ CheckBoundary(ids, ids_transposed, size, last'.ret)]_vars

\* An insert completed two blocks of unit pumpkins at once and returned one.
C13_Witness ==
    /\ AddHappened
    /\ last.ret.size = 2
    /\ \E sq \in ValidSquares(size) :
          /\ sq.size = 2
          /\ sq # last.ret
          /\ SquareContains(sq, last.x, last.y)
          /\ \A c \in SquareBitmap(sq, size) \ SquareBitmap(last.ret, size) :
                ids[c] = c + 1

\* C14: an insert on a cell that is already planted is rejected or flagged as
\* a precondition violation at the point of the call; it is never processed as
\* a normal insertion.
C14_ReplantFlagged ==
    last.planted => last.op = "panic"

\* C15: every insert terminates: a square is marked visited before it is
\* pushed and is pushed at most once (the pushes are as many as the squares
\* marked), the stack empties (every pushed square was popped), and the loop
\* ran at most N^3 times.
C15_SearchTerminates ==
    AddHappened =>
        /\ last.pushes = last.visited
        /\ last.pops = last.pushes
        /\ last.pops >= 1
        /\ last.pops <= size * size * size

\* A search that went from the cell through four squares of side 2 to a
\* square of side 3.
C15_Witness ==
    /\ AddHappened
    /\ last.ret.size = 3
    /\ last.pops >= 6

\* C16: for every valid square sq of an N-grid, sq.idx(N) is
\* x + y * N + (size - 1) * N * N and lies in [0, N^3), from_index of it
\* gives sq back, and no other valid square has the same index.
C16_HashRoundTrip ==
    query.op = "idx" =>
        /\ query.idx = query.sq.x + query.sq.y * size
                           + (query.sq.size - 1) * size * size
        /\ query.idx >= 0
        /\ query.idx < size * size * size
        /\ query.back = query.sq
        /\ \A o \in ValidSquares(size) :
              o # query.sq => Idx(o, size) # query.idx

\* The round trip of a square of side 2 or more off the diagonal.
C16_Witness ==
    /\ query.op = "idx"
    /\ query.sq.size >= 2
    /\ query.sq.x > query.sq.y
    /\ query.sq.y > 0
    /\ query.back = query.sq

\* C17: building a LookupTable for grid size 0 fails with a precondition
\* violation; no table is returned.
C17_ZeroSizeRejected ==
    (query.op = "new" /\ query.n = 0) => query.outcome = "panic"

\* C19: for every grid size N up to 1024 and every anchor of the grid, the
\* identity y * N + x + 1 and the cell index y * N + x are computed without
\* overflow, the identity is not 0, and another anchor has another identity.
C19_IdentityFits ==
    query.op = "id" =>
        /\ query.outcome = "value"
        /\ query.id = query.y * query.n + query.x + 1
        /\ query.index = query.y * query.n + query.x
        /\ query.id # 0
        /\ \A x \in EdgeCoordinates(query.n), y \in EdgeCoordinates(query.n) :
              <<x, y>> # <<query.x, query.y>>
                  => IdOf(SquareNew(x, y, 1), query.n) # query.id

\* C18: with two patches holding one LookupTable, in every interleaving of
\* their inserts each insert leaves its patch as, and returns what, the same
\* insert does on that patch with a table of its own; it leaves the other
\* patch alone, and no insert changes the LookupTable.
C18_SharedTableIsolation ==
    [][/\ lookup_table = Tables[size]
       /\ lookup_table' = lookup_table
       /\ bitmap' # bitmap =>
             /\ other' = other
             /\ \E o \in {AddOutcome(Tables[size], bitmap, ids, ids_transposed,
                                     size, last'.x, last'.y)} :
                   /\ bitmap' = o.bitmap
                   /\ ids' = o.ids
                   /\ ids_transposed' = o.ids_transposed
                   /\ last'.ret = o.last.ret
       /\ other' # other =>
             /\ <<bitmap', ids', ids_transposed', last'>>
                    = <<bitmap, ids, ids_transposed, last>>
             /\ \E o \in {AddOutcome(Tables[size], other.bitmap, other.ids,
                                     other.ids_transposed, size,
                                     other'.last.x, other'.last.y)} :
                   /\ other'.bitmap = o.bitmap
                   /\ other'.ids = o.ids
                   /\ other'.ids_transposed = o.ids_transposed
                   /\ other'.last.ret = o.last.ret]_vars

\* Both patches were planted on, differently, and one of them merged.
C18_Witness ==
    /\ AddHappened
    /\ other.last.op = "add"
    /\ last.ret.size = 2
    /\ other.last.ret.size = 1
    /\ other.bitmap # {}
    /\ other.bitmap # bitmap
    /\ other.ids # ids

\* The cells (ix, iy) inside and (ox, oy) outside carry the same identity.
SameIdentity(ix, iy, ox, oy) ==
    /\ ids[oy * size + ox] # 0
    /\ ids[iy * size + ix] = ids[oy * size + ox]

\* The edges of sq that are not on the border of the grid and have a position
\* where the cell outside carries the identity of the cell inside, read on ids.
ClashingEdges(sq) ==
    LET s == sq.size
    IN  {e \in {"north", "south", "east", "west"} :
            \E i \in 0..(s - 1) :
                \/ /\ e = "north"
                   /\ sq.y + s < size
                   /\ SameIdentity(sq.x + i, sq.y + s - 1, sq.x + i, sq.y + s)
                \/ /\ e = "south"
                   /\ sq.y > 0
                   /\ SameIdentity(sq.x + i, sq.y, sq.x + i, sq.y - 1)
                \/ /\ e = "east"
                   /\ sq.x + s < size
                   /\ SameIdentity(sq.x + s - 1, sq.y + i, sq.x + s, sq.y + i)
                \/ /\ e = "west"
                   /\ sq.x > 0
                   /\ SameIdentity(sq.x, sq.y + i, sq.x - 1, sq.y + i)}

\* C20: check_boundary(S) is false exactly if some edge of S that is not on
\* the border of the grid has a position i in [0, s) where the cell outside
\* has an identity and the adjacent cell inside has the same one (north:
\* (x+i, y+s-1) against (x+i, y+s); south: (x+i, y) against (x+i, y-1); east:
\* (x+s-1, y+i) against (x+s, y+i); west: (x, y+i) against (x-1, y+i)); the
\* scans of the east and west edges over ids_transposed answer as the same
\* comparison on ids does.
C20_CheckBoundaryByCoordinates ==
    \A sq \in ValidSquares(size) :
        CheckBoundary(ids, ids_transposed, size, sq) = (ClashingEdges(sq) = {})

\* A square turned down for its east edge alone, and one for its west edge
\* alone.
C20_Witness ==
    /\ \E sq \in ValidSquares(size) : ClashingEdges(sq) = {"east"}
    /\ \E sq \in ValidSquares(size) : ClashingEdges(sq) = {"west"}
    /\ \E sq \in ValidSquares(size) : ClashingEdges(sq) = {"north"}

---------------------------------------------------------------------------
(* The squares the search goes through *)

\* The squares of a sequence.
SquaresOf(seq) == {seq[i] : i \in 1..Len(seq)}

\* The squares reached from the squares V by next_larger steps, as many as it
\* takes: out of every square if all, out of the squares fully planted in bm
\* otherwise.
RECURSIVE ReachedFrom(_, _, _, _)
ReachedFrom(V, n, bm, all) ==
    LET step == V \cup UNION {SquaresOf(NextLargerSquares(sq, n)) :
                                 sq \in {s \in V : all \/ FullyPlanted(bm, s, n)}}
    IN  IF step = V THEN V ELSE ReachedFrom(step, n, bm, all)

\* C21 as stated: every popped square has its next_larger squares marked and
\* pushed whether or not it is fully planted, so the squares an insert of
\* (x, y) visited are all the squares reachable from (x, y, 1) through
\* next_larger.
C21_ExpandsEverySquare ==
    AddHappened =>
        SquaresOf(last.popped)
            = ReachedFrom({SquareNew(last.x, last.y, 1)}, size, bitmap, TRUE)

\* C21, amended: a popped square has its next_larger squares marked and
\* pushed only if it is fully planted, the condition that also guards the size
\* comparison and the boundary check; the squares an insert of (x, y) visited
\* are those reachable from (x, y, 1) by next_larger steps out of fully
\* planted squares.
C21_ExpandsPlantedSquares ==
    AddHappened =>
        SquaresOf(last.popped)
            = ReachedFrom({SquareNew(last.x, last.y, 1)}, size, bitmap, FALSE)

\* A search that went up to a square of side 3 and left out squares that
\* next_larger reaches from the cell.
C21_Witness ==
    /\ AddHappened
    /\ \E sq \in SquaresOf(last.popped) : sq.size = 3
    /\ SquaresOf(last.popped)
           # ReachedFrom({SquareNew(last.x, last.y, 1)}, size, bitmap, TRUE)

\* C22: for every square an insert pops from the stack, the bitmap the
\* LookupTable stores for it is the square's own bitmap (the debug assertion
\* at the top of the loop holds), and bit cy * N + cx of it is set iff
\* x <= cx < x + size and y <= cy < y + size.
C22_TableBitmapIsSquareBitmap ==
    AddHappened =>
        \A sq \in SquaresOf(last.popped) :
            /\ GetBitmap(lookup_table, sq) = SquareBitmap(sq, size)
            /\ \A cx \in 0..(size - 1), cy \in 0..(size - 1) :
                  (cy * size + cx \in GetBitmap(lookup_table, sq))
                      <=> /\ sq.x <= cx
                          /\ cx < sq.x + sq.size
                          /\ sq.y <= cy
                          /\ cy < sq.y + sq.size

\* A search that popped a square of side 2 or more off the diagonal.
C22_Witness ==
    /\ AddHappened
    /\ \E sq \in SquaresOf(last.popped) :
          /\ sq.size >= 2
          /\ sq.x > sq.y
          /\ GetBitmap(lookup_table, sq) # {}

\* C23: every square an insert pushes on the stack (each is popped in turn),
\* passes to check_boundary or returns is a valid square of the grid: size >= 1,
\* x + size <= N, y + size <= N.  So its index into the table is below N^3,
\* size - sq.size does not underflow, and the slices check_boundary takes of
\* ids and ids_transposed for its edges end within the N * N entries.
C23_SearchSquaresValid ==
    AddHappened =>
        \A sq \in SquaresOf(last.popped) \cup {last.ret} :
            /\ sq.size >= 1
            /\ sq.x + sq.size <= size
            /\ sq.y + sq.size <= size
            /\ Idx(sq, size) < size * size * size
            /\ size - sq.size >= 0
            /\ sq.y < size - sq.size
                   => (sq.y + sq.size) * size + sq.x + sq.size <= size * size
            /\ sq.y > 0
                   => /\ (sq.y - 1) * size + sq.x >= 0
                      /\ sq.y * size + sq.x + sq.size <= size * size
            /\ sq.x < size - sq.size
                   => (sq.x + sq.size) * size + sq.y + sq.size <= size * size
            /\ sq.x > 0
                   => /\ (sq.x - 1) * size + sq.y >= 0
                      /\ sq.x * size + sq.y + sq.size <= size * size

\* A search that popped a square of side 2 or more touching the far corner
\* of the grid and one starting two cells left of the inserted cell.
C23_Witness ==
    /\ AddHappened
    /\ \E sq \in SquaresOf(last.popped) :
          /\ sq.size >= 2
          /\ sq.x + sq.size = size
    /\ \E sq \in SquaresOf(last.popped) : sq.x + 2 <= last.x

---------------------------------------------------------------------------
(* The perfect hash on all of [0, N^3) *)

\* C25 as stated: the perfect hash is a bijection between the valid squares
\* of an N-grid and [0, N^3): every index of [0, N^3) decodes through
\* from_index to a valid square, so every entry of the table belongs to one.
C25_EveryIndexIsValidSquare ==
    query.op = "from_index" =>
        /\ query.back \in ValidSquares(size)
        /\ Cardinality(ValidSquares(size)) = size * size * size

\* C25, amended: the perfect hash maps the valid squares one-to-one into
\* [0, N^3) but not onto it: every index decodes through from_index to a
\* square with x < N, y < N and 1 <= size <= N that has this index, the square
\* is valid for N (N + 1) (2 N + 1) / 6 of the N^3 indices, those that are the
\* index of a valid square, and LookupTable::new builds an entry for each of
\* the N^3 indices.
C25_IndexDecodesWithinGrid ==
    query.op = "from_index" =>
        /\ query.back.x >= 0 /\ query.back.x < size
        /\ query.back.y >= 0 /\ query.back.y < size
        /\ query.back.size >= 1 /\ query.back.size <= size
        /\ Idx(query.back, size) = query.idx
        /\ (query.back \in ValidSquares(size))
               <=> (\E sq \in ValidSquares(size) : Idx(sq, size) = query.idx)
        /\ 6 * Cardinality(ValidSquares(size)) = size * (size + 1) * (2 * size + 1)
        /\ Len(lookup_table.index) = size * size * size
        /\ Len(lookup_table.bitmaps) = size * size * size

\* An index that decodes to a square reaching over the edge of the grid.
C25_Witness ==
    /\ query.op = "from_index"
    /\ query.back.x + query.back.size > size
    /\ query.back.y + query.back.size <= size
    /\ lookup_table.bitmaps[query.idx + 1] # {}

---------------------------------------------------------------------------
(* The two engines *)

\* C24: fed the same distinct cells, PumpkinPatch::add and Pumpkins::add
\* return the same square at every step and leave the same identity on every
\* cell.
C24_EnginesAgree ==
    AddHappened =>
        /\ last.ret = pumpkins.ret
        /\ \A c \in Cells(size) : ids[c] = pumpkins.ids[c]

====
